---- MODULE Spec2Model ----
(***************************************************************************)
(* Macronutrient calculator: the three variants of the React component     *)
(* MacronutrientCalculator (src/app/page.tsx, src/unnamed/part_000,        *)
(* src/unnamed/part_001).                                                  *)
(*                                                                         *)
(* The arithmetic of onSubmit is JavaScript Number arithmetic, i.e. IEEE   *)
(* 754 binary64 with round-to-nearest-even.  It is modelled bit for bit:   *)
(* a Number is a sign, a significand of at most 53 bits and a binary       *)
(* exponent, the significand being an arbitrary-precision natural (a       *)
(* little-endian sequence of limbs), because the model checker's integers  *)
(* have 32 bits.                                                           *)
(* Magnitudes in the model stay far from overflow and from subnormals, so  *)
(* Infinity and gradual underflow are not represented; NaN is.             *)
(***************************************************************************)
EXTENDS Integers, Sequences, FiniteSets, TLC

----------------------------------------------------------------------------
(* Arbitrary-precision naturals                                            *)

LimbBits == 14
Base == 16384

RECURSIVE Pow2(_)
Pow2(n) == IF n = 0 THEN 1 ELSE 2 * Pow2(n - 1)

RECURSIVE BigTrim(_)
BigTrim(a) ==
  IF a = <<>> THEN a
  ELSE IF a[Len(a)] = 0 THEN BigTrim(SubSeq(a, 1, Len(a) - 1)) ELSE a

RECURSIVE BigOfNat(_)
BigOfNat(n) == IF n = 0 THEN <<>> ELSE <<n % Base>> \o BigOfNat(n \div Base)

Limb(a, i) == IF i <= Len(a) THEN a[i] ELSE 0

RECURSIVE BigAddFrom(_, _, _, _)
BigAddFrom(a, b, i, c) ==
  IF i > Len(a) /\ i > Len(b)
  THEN (IF c = 0 THEN <<>> ELSE <<c>>)
  ELSE LET s == Limb(a, i) + Limb(b, i) + c
       IN  <<s % Base>> \o BigAddFrom(a, b, i + 1, s \div Base)

BigAdd(a, b) == BigAddFrom(a, b, 1, 0)

RECURSIVE BigSubFrom(_, _, _, _)
BigSubFrom(a, b, i, br) ==
  IF i > Len(a) THEN <<>>
  ELSE LET d == a[i] - Limb(b, i) - br
       IN  IF d < 0 THEN <<d + Base>> \o BigSubFrom(a, b, i + 1, 1)
           ELSE <<d>> \o BigSubFrom(a, b, i + 1, 0)

\* a - b for a >= b
BigSub(a, b) == BigTrim(BigSubFrom(a, b, 1, 0))

RECURSIVE BigCmpFrom(_, _, _)
BigCmpFrom(a, b, i) ==
  IF i = 0 THEN 0
  ELSE IF a[i] < b[i] THEN -1
  ELSE IF a[i] > b[i] THEN 1
  ELSE BigCmpFrom(a, b, i - 1)

\* -1, 0, 1 as a < b, a = b, a > b
BigCmp(a, b) ==
  IF Len(a) < Len(b) THEN -1
  ELSE IF Len(a) > Len(b) THEN 1
  ELSE BigCmpFrom(a, b, Len(a))

RECURSIVE BigMulLimbFrom(_, _, _, _)
BigMulLimbFrom(a, d, i, c) ==
  IF i > Len(a) THEN (IF c = 0 THEN <<>> ELSE <<c>>)
  ELSE LET p == a[i] * d + c
       IN  <<p % Base>> \o BigMulLimbFrom(a, d, i + 1, p \div Base)

\* a * d for a limb d < Base
BigMulLimb(a, d) == BigTrim(BigMulLimbFrom(a, d, 1, 0))

RECURSIVE BigMul(_, _)
BigMul(a, b) ==
  IF a = <<>> \/ b = <<>> THEN <<>>
  ELSE LET rest    == BigMul(a, Tail(b))
           shifted == IF rest = <<>> THEN <<>> ELSE <<0>> \o rest
       IN  IF b[1] = 0 THEN shifted ELSE BigAdd(BigMulLimb(a, b[1]), shifted)

RECURSIVE Zeros(_)
Zeros(n) == IF n = 0 THEN <<>> ELSE <<0>> \o Zeros(n - 1)

\* a * 2^n
BigShl(a, n) ==
  IF a = <<>> THEN <<>>
  ELSE Zeros(n \div LimbBits) \o BigMulLimb(a, Pow2(n % LimbBits))

RECURSIVE BigDivLimbFrom(_, _, _, _)
BigDivLimbFrom(a, d, i, r) ==
  IF i = 0 THEN <<>>
  ELSE LET cur == r * Base + a[i]
       IN  BigDivLimbFrom(a, d, i - 1, cur % d) \o <<cur \div d>>

\* a \div d for a limb d < Base
BigDivLimb(a, d) == BigTrim(BigDivLimbFrom(a, d, Len(a), 0))

\* a \div 2^n
BigShr(a, n) ==
  IF n \div LimbBits >= Len(a) THEN <<>>
  ELSE BigDivLimb(SubSeq(a, n \div LimbBits + 1, Len(a)), Pow2(n % LimbBits))

RECURSIVE NatBitLen(_)
NatBitLen(n) == IF n = 0 THEN 0 ELSE 1 + NatBitLen(n \div 2)

BigBitLen(a) ==
  IF a = <<>> THEN 0 ELSE LimbBits * (Len(a) - 1) + NatBitLen(a[Len(a)])

BigIsOdd(a) == a # <<>> /\ a[1] % 2 = 1

----------------------------------------------------------------------------
(* JavaScript Numbers (IEEE 754 binary64, round to nearest, ties to even)  *)
(* A finite Number is (-1)^neg * m * 2^e with m = 0 (and e = 0) or m odd   *)
(* and m < 2^53: every Number has exactly one representation.              *)

Precision == 53

NaN == [nan |-> TRUE, neg |-> FALSE, m |-> <<>>, e |-> 0]

NumZero(neg) == [nan |-> FALSE, neg |-> neg, m |-> <<>>, e |-> 0]

IsZero(x) == ~x.nan /\ x.m = <<>>

RECURSIVE NatTrailingZeros(_)
NatTrailingZeros(n) == IF n % 2 = 1 THEN 0 ELSE 1 + NatTrailingZeros(n \div 2)

RECURSIVE BigTrailingZeros(_)
BigTrailingZeros(a) ==
  IF a[1] = 0 THEN LimbBits + BigTrailingZeros(Tail(a))
  ELSE NatTrailingZeros(a[1])

\* (-1)^neg * n * 2^e for n > 0 with tz trailing zero bits
Normalised(neg, n, e, tz) ==
  [nan |-> FALSE, neg |-> neg, m |-> BigShr(n, tz), e |-> e + tz]

\* (-1)^neg * n * 2^e for 0 < n < 2^54 with n = 2^53 the only value above
\* 2^53 - 1, in the representation with an odd significand
Canonical(neg, n, e) == Normalised(neg, n, e, BigTrailingZeros(n))

\* n + f, of which the low sh bits and the fraction f are dropped, is rounded
\* away from q = n \div 2^sh when the dropped part is above half a unit of q,
\* or is exactly half and q is odd; c compares the dropped bits with the half
RoundsUp(q, c, sticky) == c > 0 \/ (c = 0 /\ (sticky \/ BigIsOdd(q)))

\* The significand nearest to (n + f) / 2^sh, ties to even, q = n \div 2^sh
Nearest(n, sh, q, sticky) ==
  IF RoundsUp(q, BigCmp(BigSub(n, BigShl(q, sh)), BigShl(<<1>>, sh - 1)), sticky)
  THEN BigAdd(q, <<1>>)
  ELSE q

\* RoundToNumber for an n of len bits
RoundBits(neg, n, e, sticky, len) ==
  IF len = 0 THEN NumZero(neg)
  ELSE IF len <= Precision THEN Canonical(neg, n, e)
  ELSE Canonical(neg, Nearest(n, len - Precision, BigShr(n, len - Precision), sticky),
                 e + len - Precision)

\* The Number nearest to (-1)^neg * (n + f) * 2^e, where 0 <= f < 1 and
\* sticky says whether f > 0 (n has at least 55 bits whenever sticky holds).
RoundToNumber(neg, n, e, sticky) == RoundBits(neg, n, e, sticky, BigBitLen(n))

\* The Number of an integer of the model (|i| < 2^31, so always exact)
NumOfInt(i) ==
  RoundToNumber(i < 0, BigOfNat(IF i < 0 THEN -i ELSE i), 0, FALSE)

\* x * y
NumMul(x, y) ==
  IF x.nan \/ y.nan THEN NaN
  ELSE IF IsZero(x) \/ IsZero(y) THEN NumZero(x.neg # y.neg)
  ELSE RoundToNumber(x.neg # y.neg, BigMul(x.m, y.m), x.e + y.e, FALSE)

\* x + y for nonzero x and y whose significands at the common exponent e
\* are nx and ny, c comparing nx with ny
AddCompared(x, y, e, nx, ny, c) ==
  IF x.neg # y.neg /\ c = 0 THEN NumZero(FALSE)
  ELSE RoundToNumber(IF x.neg = y.neg \/ c > 0 THEN x.neg ELSE y.neg,
                     IF x.neg = y.neg THEN BigAdd(nx, ny)
                     ELSE IF c > 0 THEN BigSub(nx, ny) ELSE BigSub(ny, nx),
                     e, FALSE)

AddAligned(x, y, e, nx, ny) == AddCompared(x, y, e, nx, ny, BigCmp(nx, ny))

\* x + y for nonzero x and y, e the smaller of their exponents
AddAt(x, y, e) == AddAligned(x, y, e, BigShl(x.m, x.e - e), BigShl(y.m, y.e - e))

\* x + y
NumAdd(x, y) ==
  IF x.nan \/ y.nan THEN NaN
  ELSE IF IsZero(x) /\ IsZero(y) THEN NumZero(x.neg /\ y.neg)
  ELSE IF IsZero(x) THEN y
  ELSE IF IsZero(y) THEN x
  ELSE AddAt(x, y, IF x.e < y.e THEN x.e ELSE y.e)

NumNeg(x) == IF x.nan THEN x ELSE [x EXCEPT !.neg = ~x.neg]

\* x - y
NumSub(x, y) == NumAdd(x, NumNeg(y))

\* Quotient q and remainder of n by a limb d, 0 < d < Base
QuotientRemainder(n, d, q) == [q |-> q, r |-> BigSub(n, BigMulLimb(q, d))]

BigDivMod(n, d) == QuotientRemainder(n, d, BigDivLimb(n, d))

GuardBits == 2

\* x / y from the quotient and remainder d of x.m * 2^k by y.m
DivRounded(x, y, k, d) ==
  RoundToNumber(x.neg # y.neg, d.q, x.e - y.e - k, d.r # <<>>)

\* x / y with the dividend scaled by 2^k, so that the quotient has the
\* bits of a significand and GuardBits more
DivScaled(x, y, k) == DivRounded(x, y, k, BigDivMod(BigShl(x.m, k), y.m[1]))

\* The scaling of the dividend: none when it is long enough already
Scaling(want) == IF want > 0 THEN want ELSE 0

\* x / y for a divisor whose odd significand is a single limb, as are the
\* divisors of the program (4 and 9) and the powers of ten of its literals
NumDiv(x, y) ==
  IF x.nan \/ y.nan \/ (IsZero(x) /\ IsZero(y)) THEN NaN
  ELSE IF IsZero(x) THEN NumZero(x.neg # y.neg)
  ELSE DivScaled(x, y, Scaling(Precision + GuardBits + BigBitLen(y.m) - BigBitLen(x.m)))

\* The Number a decimal literal n / pow10 denotes (both operands are exact,
\* so the correctly rounded quotient is the correctly rounded literal)
Decimal(n, pow10) == NumDiv(NumOfInt(n), NumOfInt(pow10))

\* The positive Number m * 2^e written out, m odd, limbs least significant
\* first
Double(m, e) == [nan |-> FALSE, neg |-> FALSE, m |-> m, e |-> e]

NotNegative(d) == IsZero(d) \/ ~d.neg

\* x <= y (false when either is NaN)
NumLeq(x, y) ==
  /\ ~x.nan /\ ~y.nan
  /\ NotNegative(NumSub(y, x))

NumAbs(x) == IF x.nan THEN x ELSE [x EXCEPT !.neg = FALSE]

\* x === y (NaN differs from everything, -0 equals +0)
NumEq(x, y) ==
  /\ ~x.nan /\ ~y.nan
  /\ \/ IsZero(x) /\ IsZero(y)
     \/ x = y

\* the integer (-1)^neg * n as a Number, a zero keeping the sign
IntegerOf(neg, n) == IF n = <<>> THEN NumZero(neg) ELSE Canonical(neg, n, 0)

\* Mutant of MathRound: the fraction dropped
MathRound_Floor(x) ==
  IF x.nan \/ IsZero(x) \/ x.e >= 0 THEN x
  ELSE IntegerOf(x.neg, BigShr(x.m, 0 - x.e))

\* Math.round(x): the integer nearest to x, a tie going to the greater one.
\* A Number with e < 0 has an odd significand and so a fraction:
\* floor(m / 2^k + 1/2) for a positive x and -ceil(m / 2^k - 1/2) for a
\* negative one, k = -e.
MathRound(x) ==
  IF x.nan \/ IsZero(x) \/ x.e >= 0 THEN x
  ELSE IF x.neg
       THEN IntegerOf(TRUE, BigShr(BigSub(BigAdd(x.m, BigShl(<<1>>, (0 - x.e) - 1)),
                                          <<1>>),
                                   0 - x.e))
       ELSE IntegerOf(FALSE, BigShr(BigAdd(x.m, BigShl(<<1>>, (0 - x.e) - 1)),
                                    0 - x.e))

----------------------------------------------------------------------------
(* JavaScript values of the form fields.  A string is the sequence of its  *)
(* characters.                                                             *)

Undefined == [t |-> "undefined", num |-> NaN, str |-> <<>>]
JSNumber(x) == [t |-> "number", num |-> x, str |-> <<>>]
JSString(s) == [t |-> "string", num |-> NaN, str |-> s]

\* v === s for a string literal s
StrictEqualsString(v, s) == v.t = "string" /\ v.str = s

DigitValue(c) ==
  CASE c = "0" -> 0 [] c = "1" -> 1 [] c = "2" -> 2 [] c = "3" -> 3
    [] c = "4" -> 4 [] c = "5" -> 5 [] c = "6" -> 6 [] c = "7" -> 7
    [] c = "8" -> 8 [] c = "9" -> 9 [] OTHER -> -1

\* Scan an unsigned decimal literal from position i of s: the digits read so
\* far are n / pow10 (digits of them), stop at the first character that
\* cannot continue the literal.
RECURSIVE ScanDecimal(_, _, _, _, _, _)
ScanDecimal(s, i, n, pow10, dot, digits) ==
  IF i > Len(s) THEN [n |-> n, pow10 |-> pow10, digits |-> digits, end |-> i]
  ELSE IF s[i] = "." /\ ~dot THEN ScanDecimal(s, i + 1, n, pow10, TRUE, digits)
  ELSE IF DigitValue(s[i]) >= 0
  THEN ScanDecimal(s, i + 1, 10 * n + DigitValue(s[i]),
                   IF dot THEN 10 * pow10 ELSE pow10, dot, digits + 1)
  ELSE [n |-> n, pow10 |-> pow10, digits |-> digits, end |-> i]

\* The Number of the literal d scanned from s, NaN unless it is all of s
ScannedWhole(s, d) ==
  IF d.digits > 0 /\ d.end > Len(s) THEN Decimal(d.n, d.pow10) ELSE NaN

\* The Number of the literal d scanned from the front of a string, NaN if
\* no digit was read
ScannedPrefix(d) == IF d.digits > 0 THEN Decimal(d.n, d.pow10) ELSE NaN

\* Number(s) for a string s: the empty string is 0, an unsigned decimal
\* literal its value, anything else NaN (the model enters no signs, exponents
\* or blanks)
StringToNumber(s) ==
  IF s = <<>> THEN NumZero(FALSE)
  ELSE ScannedWhole(s, ScanDecimal(s, 1, 0, 1, FALSE, 0))

\* ToNumber(v), the conversion the operator * applies to its operands
ToNumber(v) ==
  CASE v.t = "number"    -> v.num
    [] v.t = "string"    -> StringToNumber(v.str)
    [] v.t = "undefined" -> NaN

\* parseFloat(v): the longest decimal prefix of String(v), NaN if there is
\* none (String(undefined) is "undefined")
parseFloat(v) ==
  CASE v.t = "number"    -> v.num
    [] v.t = "undefined" -> NaN
    [] v.t = "string"    -> ScannedPrefix(ScanDecimal(v.str, 1, 0, 1, FALSE, 0))

----------------------------------------------------------------------------
(* Types and constants of the components                                   *)

Variants == {"page", "part_000", "part_001"}

\* enum ActivityLevel of page.tsx and part_001 (numeric members), each
\* member the double its literal denotes (LiteralsAreNearestDoubles)
ActivityLevel ==
  [Sedentary        |-> Double(<<13107, 3276, 13107, 1228>>, -52),  \* 1.2
   SlightlyActive   |-> Double(<<11>>, -3),                         \* 1.375
   ModeratelyActive |-> Double(<<3277, 13107, 3276, 1587>>, -52),   \* 1.55
   VeryActive       |-> Double(<<3277, 13107, 3276, 883>>, -51),    \* 1.725
   ExtraActive      |-> Double(<<13107, 3276, 13107, 972>>, -51)]   \* 1.9

ActivityLevelNames ==
  {"Sedentary", "SlightlyActive", "ModeratelyActive", "VeryActive", "ExtraActive"}

\* enum ActivityLevel of part_000 (string members); the values of the
\* <option>s of the activity <select> of part_001 are the same strings
ActivityLevelString ==
  [Sedentary        |-> <<"1", ".", "2">>,
   SlightlyActive   |-> <<"1", ".", "3", "7", "5">>,
   ModeratelyActive |-> <<"1", ".", "5", "5">>,
   VeryActive       |-> <<"1", ".", "7", "2", "5">>,
   ExtraActive      |-> <<"1", ".", "9">>]

ActivityLevelStrings == {ActivityLevelString[a] : a \in ActivityLevelNames}

\* enum UserGoal (page.tsx, part_000), enum Goal (part_001)
Goal ==
  [Maintain |-> <<"m", "a", "i", "n", "t", "a", "i", "n">>,
   Lose0_5  |-> <<"l", "o", "s", "e", "-", "0", ".", "5">>,
   Lose1    |-> <<"l", "o", "s", "e", "-", "1">>,
   Lose2    |-> <<"l", "o", "s", "e", "-", "2">>,
   Gain0_5  |-> <<"g", "a", "i", "n", "-", "0", ".", "5">>,
   Gain1    |-> <<"g", "a", "i", "n", "-", "1">>,
   Gain2    |-> <<"g", "a", "i", "n", "-", "2">>]

GoalNames == {"Maintain", "Lose0_5", "Lose1", "Lose2", "Gain0_5", "Gain1", "Gain2"}

UserGoal == {Goal[g] : g \in GoalNames}

Male == <<"m", "a", "l", "e">>
Female == <<"f", "e", "m", "a", "l", "e">>

Genders == {Male, Female}

\* The numeric literals of onSubmit, each the double it denotes
\* (LiteralsAreNearestDoubles)
Lit ==
  [ten           |-> Double(<<5>>, 1),                           \* 10
   sixAndQuarter |-> Double(<<25>>, -2),                         \* 6.25
   five          |-> Double(<<5>>, 0),                           \* 5
   n161          |-> Double(<<161>>, 0),                         \* 161
   zero          |-> Double(<<>>, 0),                            \* 0
   one           |-> Double(<<1>>, 0),                           \* 1
   p9            |-> Double(<<3277, 13107, 3276, 1843>>, -53),   \* 0.9
   p8            |-> Double(<<3277, 13107, 3276, 819>>, -52),    \* 0.8
   p6            |-> Double(<<13107, 3276, 13107, 1228>>, -53),  \* 0.6
   onep1         |-> Double(<<3277, 13107, 3276, 563>>, -51),    \* 1.1
   onep2         |-> Double(<<13107, 3276, 13107, 1228>>, -52),  \* 1.2
   onep4         |-> Double(<<13107, 3276, 13107, 716>>, -51),   \* 1.4
   p25           |-> Double(<<1>>, -2),                          \* 0.25
   p45           |-> Double(<<3277, 13107, 3276, 1843>>, -54),   \* 0.45
   p3            |-> Double(<<13107, 3276, 13107, 1228>>, -54),  \* 0.3
   four          |-> Double(<<1>>, 2),                           \* 4
   nine          |-> Double(<<9>>, 0)]                           \* 9

\* Every literal written out above is the correctly rounded value of its
\* decimal text
LiteralsAreNearestDoubles ==
  /\ ActivityLevel.Sedentary = Decimal(12, 10)
  /\ ActivityLevel.SlightlyActive = Decimal(1375, 1000)
  /\ ActivityLevel.ModeratelyActive = Decimal(155, 100)
  /\ ActivityLevel.VeryActive = Decimal(1725, 1000)
  /\ ActivityLevel.ExtraActive = Decimal(19, 10)
  /\ Lit.ten = NumOfInt(10)   /\ Lit.sixAndQuarter = Decimal(625, 100)
  /\ Lit.five = NumOfInt(5)   /\ Lit.n161 = NumOfInt(161)
  /\ Lit.zero = NumOfInt(0)   /\ Lit.one = NumOfInt(1)
  /\ Lit.p9 = Decimal(9, 10)  /\ Lit.p8 = Decimal(8, 10)
  /\ Lit.p6 = Decimal(6, 10)  /\ Lit.onep1 = Decimal(11, 10)
  /\ Lit.onep2 = Decimal(12, 10) /\ Lit.onep4 = Decimal(14, 10)
  /\ Lit.p25 = Decimal(25, 100)  /\ Lit.p45 = Decimal(45, 100)
  /\ Lit.p3 = Decimal(3, 10)  /\ Lit.four = NumOfInt(4)
  /\ Lit.nine = NumOfInt(9)

\* Mutant of initialResults: a record that is not all zeros
initialResults_Ones ==
  [calories |-> Lit.one, protein |-> Lit.zero, carbs |-> Lit.zero, fat |-> Lit.zero]

\* const initialResults
initialResults ==
  [calories |-> Lit.zero, protein |-> Lit.zero, carbs |-> Lit.zero, fat |-> Lit.zero]

----------------------------------------------------------------------------
(* onSubmit                                                                *)

\* Mutant of Bmr: the textbook equation, with the height term 6.25 * height
Bmr_WithHeight(data) ==
  LET base == NumSub(NumAdd(NumMul(Lit.ten, ToNumber(data.weight)),
                            NumMul(Lit.sixAndQuarter, ToNumber(data.heightFeet))),
                     NumMul(Lit.five, ToNumber(data.age)))
  IN  IF StrictEqualsString(data.gender, Male) THEN NumAdd(base, Lit.five)
      ELSE IF StrictEqualsString(data.gender, Female) THEN NumSub(base, Lit.n161)
      ELSE Lit.zero

\* Mutant of Bmr: 6.25 multiplied by the inches of the height
Bmr_HeightInches(data) ==
  LET base == NumSub(NumAdd(NumMul(Lit.ten, ToNumber(data.weight)),
                            NumMul(Lit.sixAndQuarter, ToNumber(data.heightInches))),
                     NumMul(Lit.five, ToNumber(data.age)))
  IN  IF StrictEqualsString(data.gender, Male) THEN NumAdd(base, Lit.five)
      ELSE IF StrictEqualsString(data.gender, Female) THEN NumSub(base, Lit.n161)
      ELSE Lit.zero

\* Mutant of Bmr: the constants of the two branches exchanged
Bmr_SwappedConstants(data) ==
  LET base == NumSub(NumAdd(NumMul(Lit.ten, ToNumber(data.weight)), Lit.sixAndQuarter),
                     NumMul(Lit.five, ToNumber(data.age)))
  IN  IF StrictEqualsString(data.gender, Male) THEN NumSub(base, Lit.n161)
      ELSE IF StrictEqualsString(data.gender, Female) THEN NumAdd(base, Lit.five)
      ELSE Lit.zero

\* The two branches of bmr, base the value of the part they share,
\* 10 * data.weight + 6.25 - 5 * data.age
BmrOfGender(gender, base) ==
  IF StrictEqualsString(gender, Male) THEN NumAdd(base, Lit.five)
  ELSE IF StrictEqualsString(gender, Female) THEN NumSub(base, Lit.n161)
  ELSE Lit.zero

\* let bmr = 0; if (data.gender === "male") ... else if (... "female") ...
Bmr(data) ==
  BmrOfGender(data.gender,
              NumSub(NumAdd(NumMul(Lit.ten, ToNumber(data.weight)), Lit.sixAndQuarter),
                     NumMul(Lit.five, ToNumber(data.age))))

\* The activity factor of tdee: data.activityLevel in page.tsx and part_001,
\* parseFloat(selectedActivityLevel!) in part_000
ActivityFactor(v, data, selActivity) ==
  IF v = "part_000" THEN parseFloat(selActivity) ELSE ToNumber(data.activityLevel)

\* Mutant of GoalMultiplier: the multipliers of lose-1 and lose-2 exchanged
GoalMultiplier_SwappedLoss(goal) ==
  CASE StrictEqualsString(goal, Goal.Maintain) -> Lit.one
    [] StrictEqualsString(goal, Goal.Lose0_5)  -> Lit.p9
    [] StrictEqualsString(goal, Goal.Lose1)    -> Lit.p6
    [] StrictEqualsString(goal, Goal.Lose2)    -> Lit.p8
    [] StrictEqualsString(goal, Goal.Gain0_5)  -> Lit.onep1
    [] StrictEqualsString(goal, Goal.Gain1)    -> Lit.onep2
    [] StrictEqualsString(goal, Goal.Gain2)    -> Lit.onep4
    [] OTHER                                   -> Lit.one

\* Mutant of GoalMultiplier: let goalMultiplier = 0 as the default
GoalMultiplier_DefaultZero(goal) ==
  CASE StrictEqualsString(goal, Goal.Maintain) -> Lit.one
    [] StrictEqualsString(goal, Goal.Lose0_5)  -> Lit.p9
    [] StrictEqualsString(goal, Goal.Lose1)    -> Lit.p8
    [] StrictEqualsString(goal, Goal.Lose2)    -> Lit.p6
    [] StrictEqualsString(goal, Goal.Gain0_5)  -> Lit.onep1
    [] StrictEqualsString(goal, Goal.Gain1)    -> Lit.onep2
    [] StrictEqualsString(goal, Goal.Gain2)    -> Lit.onep4
    [] OTHER                                   -> Lit.zero

\* let goalMultiplier = 1; switch (data.userGoal) { ... default: break; }
GoalMultiplier(goal) ==
  CASE StrictEqualsString(goal, Goal.Maintain) -> Lit.one
    [] StrictEqualsString(goal, Goal.Lose0_5)  -> Lit.p9
    [] StrictEqualsString(goal, Goal.Lose1)    -> Lit.p8
    [] StrictEqualsString(goal, Goal.Lose2)    -> Lit.p6
    [] StrictEqualsString(goal, Goal.Gain0_5)  -> Lit.onep1
    [] StrictEqualsString(goal, Goal.Gain1)    -> Lit.onep2
    [] StrictEqualsString(goal, Goal.Gain2)    -> Lit.onep4
    [] OTHER                                   -> Lit.one

\* Mutant of Macronutrients: fat at 4 calories per gram
Macronutrients_FatPerFour(adjustedTdee) ==
  [calories |-> adjustedTdee,
   protein  |-> NumDiv(NumMul(adjustedTdee, Lit.p25), Lit.four),
   carbs    |-> NumDiv(NumMul(adjustedTdee, Lit.p45), Lit.four),
   fat      |-> NumDiv(NumMul(adjustedTdee, Lit.p3), Lit.four)]

\* Mutant of Macronutrients: 30% of the calories from protein instead of 25%
Macronutrients_ProteinThirty(adjustedTdee) ==
  [calories |-> adjustedTdee,
   protein  |-> NumDiv(NumMul(adjustedTdee, Lit.p3), Lit.four),
   carbs    |-> NumDiv(NumMul(adjustedTdee, Lit.p45), Lit.four),
   fat      |-> NumDiv(NumMul(adjustedTdee, Lit.p3), Lit.nine)]

\* protein, carbs and fat of the adjusted calories, with calories itself
Macronutrients(adjustedTdee) ==
  [calories |-> adjustedTdee,
   protein  |-> NumDiv(NumMul(adjustedTdee, Lit.p25), Lit.four),
   carbs    |-> NumDiv(NumMul(adjustedTdee, Lit.p45), Lit.four),
   fat      |-> NumDiv(NumMul(adjustedTdee, Lit.p3), Lit.nine)]

\* Mutant of onSubmit: the macronutrients taken from tdee, the goal unapplied
onSubmit_GoalUnapplied(v, data, selActivity) ==
  LET bmr            == Bmr(data)
      tdee           == NumMul(bmr, ActivityFactor(v, data, selActivity))
      goalMultiplier == GoalMultiplier(data.userGoal)
  IN  [invoked |-> TRUE, data |-> data, bmr |-> bmr, tdee |-> tdee,
       goalMultiplier |-> goalMultiplier,
       results |-> Macronutrients(tdee)]

\* setResults({calories: adjustedTdee, protein, carbs, fat}): the locals of
\* the invocation and the record it stores
Invocation(data, bmr, tdee, goalMultiplier, adjustedTdee) ==
  [invoked |-> TRUE, data |-> data, bmr |-> bmr, tdee |-> tdee,
   goalMultiplier |-> goalMultiplier,
   results |-> Macronutrients(adjustedTdee)]

\* const adjustedTdee = tdee * goalMultiplier, and what follows it
FromTdee(data, bmr, tdee, goalMultiplier) ==
  Invocation(data, bmr, tdee, goalMultiplier, NumMul(tdee, goalMultiplier))

\* const tdee = bmr * (the activity factor), the switch on the goal, and
\* what follows them
FromBmr(v, data, selActivity, bmr) ==
  FromTdee(data, bmr, NumMul(bmr, ActivityFactor(v, data, selActivity)),
           GoalMultiplier(data.userGoal))

\* The invocation onSubmit(data) of variant v: its locals and the record it
\* passes to setResults
onSubmit(v, data, selActivity) == FromBmr(v, data, selActivity, Bmr(data))

----------------------------------------------------------------------------
(* Validation: yupResolver(schema) of page.tsx and part_000; part_001      *)
(* calls useForm() without a resolver                                      *)

\* The cast of yup.number(): a string is stripped and converted with unary
\* plus, the empty string being NaN
YupNumberCast(v) ==
  IF v.t = "string"
  THEN (IF v.str = <<>> THEN JSNumber(NaN) ELSE JSNumber(StringToNumber(v.str)))
  ELSE v

\* typeof c === "number" && !isNaN(c)
IsNumber(c) == c.t = "number" /\ ~c.num.nan

\* yup.number().required(): present and, once cast, a number other than NaN
NumberRequired(v) == IsNumber(YupNumberCast(v))

\* yup.string().oneOf(allowed).required()
StringOneOf(v, allowed) == v.t = "string" /\ v.str \in allowed

\* yup.number().oneOf(the values of ActivityLevel).required()
NumberOneOfActivityLevel(v) ==
  /\ NumberRequired(v)
  /\ \E name \in ActivityLevelNames : NumEq(YupNumberCast(v).num, ActivityLevel[name])

\* schema.isValid(values): page.tsx declares activityLevel a number, part_000
\* a string
SchemaValid(v, values) ==
  /\ NumberRequired(values.weight)
  /\ NumberRequired(values.heightFeet)
  /\ NumberRequired(values.heightInches)
  /\ NumberRequired(values.age)
  /\ StringOneOf(values.gender, Genders)
  /\ IF v = "page" THEN NumberOneOfActivityLevel(values.activityLevel)
     ELSE StringOneOf(values.activityLevel, ActivityLevelStrings)
  /\ StringOneOf(values.userGoal, UserGoal)

\* schema.cast(values): what the resolver hands to onSubmit
SchemaCast(v, values) ==
  [values EXCEPT !.weight = YupNumberCast(@), !.heightFeet = YupNumberCast(@),
                 !.heightInches = YupNumberCast(@), !.age = YupNumberCast(@),
                 !.activityLevel = IF v = "page" THEN YupNumberCast(@) ELSE @]

\* Mutant of HasResolver: no variant validates before onSubmit
HasResolver_None(v) == FALSE

HasResolver(v) == v \in {"page", "part_000"}

----------------------------------------------------------------------------
(* State                                                                   *)

VARIABLES
  variant,                \* which of the three files is the mounted component
  form,                   \* react-hook-form's field values (the name goal of
                          \* part_001 and height.feet, height.inches of
                          \* part_000 appear as userGoal, heightFeet, heightInches)
  selectedGender,         \* part_000: useState<Gender>()
  selectedGoal,           \* part_000: useState<UserGoal | undefined>()
  selectedActivityLevel,  \* part_000: useState<ActivityLevel | undefined>()
  results,                \* useState<MacronutrientResults | null>(initialResults)
  call,                   \* the most recent invocation of onSubmit
  outcome                 \* what the most recent handleSubmit did

vars == <<variant, form, selectedGender, selectedGoal, selectedActivityLevel,
          results, call, outcome>>

\* No field registered or set: useForm() without defaultValues
EmptyForm ==
  [age |-> Undefined, gender |-> Undefined, heightFeet |-> Undefined,
   heightInches |-> Undefined, weight |-> Undefined, userGoal |-> Undefined,
   activityLevel |-> Undefined]

NoCall ==
  [invoked |-> FALSE, data |-> EmptyForm, bmr |-> Lit.zero, tdee |-> Lit.zero,
   goalMultiplier |-> Lit.one, results |-> initialResults]

\* The field values once the component is mounted.  register() reads the
\* value of each registered element: "" for an empty <input>, the first
\* <option> for a <select> (part_001).  page.tsx registers no element for
\* gender, userGoal and activityLevel, and part_000 registers none at all
\* (its inputs spread {...control}).
MountedForm(v) ==
  CASE v = "page" ->
         [EmptyForm EXCEPT !.age = JSString(<<>>), !.heightFeet = JSString(<<>>),
                           !.heightInches = JSString(<<>>), !.weight = JSString(<<>>)]
    [] v = "part_000" -> EmptyForm
    [] v = "part_001" ->
         [age |-> JSString(<<>>), gender |-> JSString(Male),
          heightFeet |-> JSString(<<>>), heightInches |-> JSString(<<>>),
          weight |-> JSString(<<>>), userGoal |-> JSString(Goal.Maintain),
          activityLevel |-> JSString(ActivityLevelString.Sedentary)]

Init ==
  /\ variant \in Variants
  /\ form = MountedForm(variant)
  /\ selectedGender = Undefined
  /\ selectedGoal = Undefined
  /\ selectedActivityLevel = Undefined
  /\ results = initialResults
  /\ call = NoCall
  /\ outcome = "none"

----------------------------------------------------------------------------
(* What the user can enter                                                 *)

DigitChar(d) ==
  CASE d = 0 -> "0" [] d = 1 -> "1" [] d = 2 -> "2" [] d = 3 -> "3"
    [] d = 4 -> "4" [] d = 5 -> "5" [] d = 6 -> "6" [] d = 7 -> "7"
    [] d = 8 -> "8" [] d = 9 -> "9"

\* The decimal digits a user types for the natural number n
RECURSIVE DecimalString(_)
DecimalString(n) ==
  IF n < 10 THEN <<DigitChar(n)>>
  ELSE DecimalString(n \div 10) \o <<DigitChar(n % 10)>>

\* How many different weights and ages are typed into the form
MaxTypedWeights == 1
MaxTypedAges == 1

\* Texts of the <input type="number"> elements, empty for a cleared one
WeightTexts == {<<>>} \cup {DecimalString(210 - 30 * i) : i \in 1..MaxTypedWeights}
AgeTexts == {<<>>} \cup {DecimalString(35 - 5 * i) : i \in 1..MaxTypedAges}
HeightFeetTexts == {<<>>, DecimalString(5)}
HeightInchesTexts == {<<>>, DecimalString(10)}

\* The buttons and options pressed
PressedGoals == {"Maintain", "Lose1"}
PressedActivityLevels == {"Sedentary", "ModeratelyActive"}

----------------------------------------------------------------------------
(* Handlers                                                                *)

\* <input {...register(name)}> of page.tsx and part_001: onChange
InputChange ==
  /\ variant \in {"page", "part_001"}
  /\ \/ \E t \in WeightTexts : form' = [form EXCEPT !.weight = JSString(t)]
     \/ \E t \in AgeTexts : form' = [form EXCEPT !.age = JSString(t)]
     \/ \E t \in HeightFeetTexts : form' = [form EXCEPT !.heightFeet = JSString(t)]
     \/ \E t \in HeightInchesTexts : form' = [form EXCEPT !.heightInches = JSString(t)]
  /\ UNCHANGED <<variant, selectedGender, selectedGoal, selectedActivityLevel,
                 results, call, outcome>>

\* page.tsx: onClick={() => setValue("gender", ...)}
SetValueGender ==
  /\ variant = "page"
  /\ \E g \in Genders : form' = [form EXCEPT !.gender = JSString(g)]
  /\ UNCHANGED <<variant, selectedGender, selectedGoal, selectedActivityLevel,
                 results, call, outcome>>

\* page.tsx: onClick={() => setValue("userGoal", UserGoal....)}
SetValueUserGoal ==
  /\ variant = "page"
  /\ \E g \in PressedGoals : form' = [form EXCEPT !.userGoal = JSString(Goal[g])]
  /\ UNCHANGED <<variant, selectedGender, selectedGoal, selectedActivityLevel,
                 results, call, outcome>>

\* page.tsx: onClick={() => setValue("activityLevel", ActivityLevel....)}
SetValueActivityLevel ==
  /\ variant = "page"
  /\ \E a \in PressedActivityLevels :
       form' = [form EXCEPT !.activityLevel = JSNumber(ActivityLevel[a])]
  /\ UNCHANGED <<variant, selectedGender, selectedGoal, selectedActivityLevel,
                 results, call, outcome>>

\* part_000: handleGenderSelection
handleGenderSelection ==
  /\ variant = "part_000"
  /\ \E g \in Genders : selectedGender' = JSString(g)
  /\ UNCHANGED <<variant, form, selectedGoal, selectedActivityLevel,
                 results, call, outcome>>

\* part_000: handleGoalSelection
handleGoalSelection ==
  /\ variant = "part_000"
  /\ \E g \in PressedGoals : selectedGoal' = JSString(Goal[g])
  /\ UNCHANGED <<variant, form, selectedGender, selectedActivityLevel,
                 results, call, outcome>>

\* part_000: handleActivityLevelSelection
handleActivityLevelSelection ==
  /\ variant = "part_000"
  /\ \E a \in PressedActivityLevels :
       selectedActivityLevel' = JSString(ActivityLevelString[a])
  /\ UNCHANGED <<variant, form, selectedGender, selectedGoal,
                 results, call, outcome>>

\* part_001: <select {...register(name)}>: onChange
SelectChange ==
  /\ variant = "part_001"
  /\ \/ \E g \in Genders : form' = [form EXCEPT !.gender = JSString(g)]
     \/ \E g \in PressedGoals : form' = [form EXCEPT !.userGoal = JSString(Goal[g])]
     \/ \E a \in PressedActivityLevels :
          form' = [form EXCEPT !.activityLevel = JSString(ActivityLevelString[a])]
  /\ UNCHANGED <<variant, selectedGender, selectedGoal, selectedActivityLevel,
                 results, call, outcome>>

\* Mutant of handleSubmit: the new result added to the stored one
handleSubmit_Accumulating ==
  IF HasResolver(variant) /\ ~SchemaValid(variant, form)
  THEN /\ outcome' = "rejected"
       /\ UNCHANGED <<variant, form, selectedGender, selectedGoal,
                      selectedActivityLevel, results, call>>
  ELSE /\ call' = onSubmit(variant,
                          IF HasResolver(variant) THEN SchemaCast(variant, form)
                          ELSE form,
                          selectedActivityLevel)
       /\ results' = [calories |-> NumAdd(results.calories, call'.results.calories),
                      protein  |-> NumAdd(results.protein, call'.results.protein),
                      carbs    |-> NumAdd(results.carbs, call'.results.carbs),
                      fat      |-> NumAdd(results.fat, call'.results.fat)]
       /\ outcome' = "accepted"
       /\ UNCHANGED <<variant, form, selectedGender, selectedGoal,
                      selectedActivityLevel>>

\* <form onSubmit={handleSubmit(onSubmit)}>: with a resolver the values are
\* validated and onSubmit gets the cast values, or is not called; without
\* one onSubmit gets the field values as they are.  onSubmit ends with
\* setResults.
handleSubmit ==
  IF HasResolver(variant) /\ ~SchemaValid(variant, form)
  THEN /\ outcome' = "rejected"
       /\ UNCHANGED <<variant, form, selectedGender, selectedGoal,
                      selectedActivityLevel, results, call>>
  ELSE /\ call' = onSubmit(variant,
                          IF HasResolver(variant) THEN SchemaCast(variant, form)
                          ELSE form,
                          selectedActivityLevel)
       /\ results' = call'.results
       /\ outcome' = "accepted"
       /\ UNCHANGED <<variant, form, selectedGender, selectedGoal,
                      selectedActivityLevel>>

\* page.tsx: the Reset button.  onClick={onReset} calls reset(): the field
\* values return to their defaults (none are given) and the registered
\* <input>s are emptied, as after mounting.  The button has no type
\* attribute, so it is a submit button of the form: the click then submits
\* the form, handleSubmit(onSubmit) running on the values just reset.
onReset ==
  /\ variant = "page"
  /\ form' = MountedForm(variant)
  /\ IF HasResolver(variant) /\ ~SchemaValid(variant, MountedForm(variant))
     THEN /\ outcome' = "rejected"
          /\ UNCHANGED <<results, call>>
     ELSE /\ call' = onSubmit(variant,
                             IF HasResolver(variant)
                             THEN SchemaCast(variant, MountedForm(variant))
                             ELSE MountedForm(variant),
                             selectedActivityLevel)
          /\ results' = call'.results
          /\ outcome' = "accepted"
  /\ UNCHANGED <<variant, selectedGender, selectedGoal, selectedActivityLevel>>

Next ==
  \/ InputChange
  \/ SetValueGender
  \/ SetValueUserGoal
  \/ SetValueActivityLevel
  \/ handleGenderSelection
  \/ handleGoalSelection
  \/ handleActivityLevelSelection
  \/ SelectChange
  \/ handleSubmit
  \/ onReset

Spec == Init /\ [][Next]_vars

----------------------------------------------------------------------------
(* The estimator on its own: onSubmit of each variant called directly with *)
(* a FormValues record, valid or not, as a unit test calls it               *)

\* How many different weights and ages are passed to onSubmit
MaxWeights == 2
MaxAges == 2

\* 20 is a weight for which the "female" equation is below zero
Weights == {20} \cup {120 + 30 * i : i \in 1..MaxWeights}
Ages == {20 + 5 * i : i \in 1..MaxAges}
HeightsFeet == {5, 6}
HeightsInches == {10}

\* A gender and a goal outside the enums
OtherGender == <<"o", "t", "h", "e", "r">>
UnknownGoal == <<>>

\* A numeric field: a number, as FormValues declares it, or the string an
\* unconverted <input> or <select> holds
NumericField(asText, n) ==
  IF asText THEN JSString(DecimalString(n)) ELSE JSNumber(NumOfInt(n))

InitEstimate ==
  /\ variant \in Variants
  /\ \E w \in Weights, a \in Ages, hf \in HeightsFeet, hi \in HeightsInches,
        g \in Genders \cup {OtherGender}, act \in ActivityLevelNames,
        goal \in UserGoal \cup {UnknownGoal}, asText \in BOOLEAN :
       /\ asText => variant = "part_001"
       /\ form = [age           |-> NumericField(asText, a),
                  gender        |-> JSString(g),
                  heightFeet    |-> NumericField(asText, hf),
                  heightInches  |-> NumericField(asText, hi),
                  weight        |-> NumericField(asText, w),
                  userGoal      |-> JSString(goal),
                  activityLevel |-> IF asText \/ variant = "part_000"
                                    THEN JSString(ActivityLevelString[act])
                                    ELSE JSNumber(ActivityLevel[act])]
  /\ selectedGender = Undefined
  /\ selectedGoal = Undefined
  /\ selectedActivityLevel \in
       IF variant = "part_000"
       THEN {Undefined} \cup {JSString(ActivityLevelString[a]) : a \in ActivityLevelNames}
       ELSE {Undefined}
  /\ results = initialResults
  /\ call = NoCall
  /\ outcome = "none"

\* onSubmit(data), which ends with setResults({calories, protein, carbs, fat})
CallOnSubmit ==
  /\ ~call.invoked
  /\ call' = onSubmit(variant, form, selectedActivityLevel)
  /\ results' = call'.results
  /\ UNCHANGED <<variant, form, selectedGender, selectedGoal,
                 selectedActivityLevel, outcome>>

NextEstimate == CallOnSubmit

SpecEstimate == InitEstimate /\ [][NextEstimate]_vars

----------------------------------------------------------------------------
(* The estimator called repeatedly: onSubmit of each variant called again  *)
(* and again with one FormValues record, the activity buttons of part_000  *)
(* pressed in between                                                      *)

\* onSubmit(data) once more, with the record of the earlier invocation
Resubmit ==
  /\ call.invoked
  /\ call' = onSubmit(variant, form, selectedActivityLevel)
  /\ results' = call'.results
  /\ UNCHANGED <<variant, form, selectedGender, selectedGoal,
                 selectedActivityLevel, outcome>>

NextResubmit ==
  \/ CallOnSubmit
  \/ Resubmit
  \/ handleActivityLevelSelection

SpecResubmit == InitEstimate /\ [][NextResubmit]_vars

----------------------------------------------------------------------------
(* Properties                                                              *)

\* n / 4 as a Number
Quarters(n) == NumDiv(NumOfInt(n), NumOfInt(4))

\* 2^e as a Number
TwoTo(e) == [nan |-> FALSE, neg |-> FALSE, m |-> <<1>>, e |-> e]

IsMale(data) == StrictEqualsString(data.gender, Male)
IsFemale(data) == StrictEqualsString(data.gender, Female)
HasWeightAge(data, w, a) ==
  ToNumber(data.weight) = NumOfInt(w) /\ ToNumber(data.age) = NumOfInt(a)

\* The multiplier tables of the specification, written as decimals
TableActivity ==
  [Sedentary |-> Decimal(1200, 1000), SlightlyActive |-> Decimal(1375, 1000),
   ModeratelyActive |-> Decimal(1550, 1000), VeryActive |-> Decimal(1725, 1000),
   ExtraActive |-> Decimal(1900, 1000)]

TableGoal ==
  [Maintain |-> Decimal(10, 10), Lose0_5 |-> Decimal(9, 10), Lose1 |-> Decimal(8, 10),
   Lose2 |-> Decimal(6, 10), Gain0_5 |-> Decimal(11, 10), Gain1 |-> Decimal(12, 10),
   Gain2 |-> Decimal(14, 10)]

\* The activity level submitted in data is the enum member a
SubmittedActivity(data, a) == ToNumber(data.activityLevel) = TableActivity[a]

\* C1: whenever onSubmit has run, bmr is 10*weight + 6.25 - 5*age + 5 for
\* "male" and 10*weight + 6.25 - 5*age - 161 for "female", that is
\* (40*weight - 20*age + 45)/4 and (40*weight - 20*age - 619)/4 exactly: a
\* function of weight and age alone (the heights vary freely), the male value
\* 166 above the female one.
C1_BmrWithoutHeight ==
  call.invoked =>
    \A w \in Weights, a \in Ages :
      HasWeightAge(call.data, w, a) =>
        /\ IsMale(call.data) => call.bmr = Quarters(40 * w - 20 * a + 45)
        /\ IsFemale(call.data) =>
             /\ call.bmr = Quarters(40 * w - 20 * a - 619)
             /\ NumAdd(call.bmr, NumOfInt(166)) = Quarters(40 * w - 20 * a + 45)

\* C1 witness: onSubmit has computed a female bmr for a 6 ft input
C1_Witness ==
  /\ call.invoked /\ IsFemale(call.data)
  /\ ToNumber(call.data.heightFeet) = NumOfInt(6)
  /\ call.bmr = Quarters(40 * 180 - 20 * 25 - 619)

\* C2: in page.tsx and part_001, for every gender, weight, age, activity
\* multiplier and goal tag, the stored calories are
\* bmr * activityLevel * goalMultiplier, with the goal multiplier of the
\* table and no other.
C2_CaloriesFromTables ==
  (call.invoked /\ variant \in {"page", "part_001"}) =>
    \A a \in ActivityLevelNames, g \in GoalNames :
      (SubmittedActivity(call.data, a) /\ StrictEqualsString(call.data.userGoal, Goal[g])) =>
        /\ call.goalMultiplier = TableGoal[g]
        /\ call.tdee = NumMul(call.bmr, TableActivity[a])
        /\ results.calories = NumMul(NumMul(call.bmr, TableActivity[a]), TableGoal[g])

\* C2 witness: calories stored for extra active (1.9) and gain-2 (1.4)
C2_Witness ==
  /\ call.invoked /\ variant = "page" /\ IsMale(call.data)
  /\ SubmittedActivity(call.data, "ExtraActive")
  /\ StrictEqualsString(call.data.userGoal, Goal.Gain2)
  /\ results.calories = NumMul(NumMul(call.bmr, Decimal(19, 10)), Decimal(14, 10))
  /\ ~IsZero(results.calories)

\* C3: the stored protein, carbs and fat are calories * 0.25 / 4,
\* calories * 0.45 / 4 and calories * 0.30 / 9 of the calories stored with them.
C3_MacrosFromCalories ==
  call.invoked =>
    /\ results.protein = NumDiv(NumMul(results.calories, Decimal(25, 100)), NumOfInt(4))
    /\ results.carbs = NumDiv(NumMul(results.calories, Decimal(45, 100)), NumOfInt(4))
    /\ results.fat = NumDiv(NumMul(results.calories, Decimal(30, 100)), NumOfInt(9))

\* C3 witness: macronutrients stored for goal-adjusted calories (lose-2)
C3_Witness ==
  /\ call.invoked /\ StrictEqualsString(call.data.userGoal, Goal.Lose2)
  /\ ~results.calories.nan /\ ~IsZero(results.calories)
  /\ results.calories # call.tdee
  /\ results.fat = NumDiv(NumMul(results.calories, Decimal(30, 100)), NumOfInt(9))

\* The gender and goal are of the enums and the activity factor used was a
\* number
ValidCombination ==
  /\ call.invoked
  /\ call.data.gender.str \in Genders
  /\ call.data.userGoal.str \in UserGoal
  /\ ~call.tdee.nan

\* protein*4 + carbs*4 + fat*9, evaluated as JavaScript evaluates it
CaloriesFromMacros ==
  NumAdd(NumAdd(NumMul(results.protein, NumOfInt(4)), NumMul(results.carbs, NumOfInt(4))),
         NumMul(results.fat, NumOfInt(9)))

\* C4: for every valid goal/activity combination protein*4 + carbs*4 + fat*9
\* equals the stored calories within floating-point tolerance: the
\* difference is at most |calories| * 2^-50.
C4_MacrosSumToCalories ==
  ValidCombination =>
    NumLeq(NumAbs(NumSub(CaloriesFromMacros, results.calories)),
           NumMul(NumAbs(results.calories), TwoTo(-50)))

\* C4 witness: a valid result whose macros do not sum to the calories bit for
\* bit, so that the tolerance is what holds
C4_Witness ==
  /\ ValidCombination
  /\ ~IsZero(results.calories)
  /\ CaloriesFromMacros # results.calories

\* female, weight 150, age 25, activity 1.2, goal lose-1, in page.tsx or part_001
C5_Input ==
  /\ call.invoked /\ variant \in {"page", "part_001"}
  /\ IsFemale(call.data) /\ HasWeightAge(call.data, 150, 25)
  /\ SubmittedActivity(call.data, "Sedentary")
  /\ StrictEqualsString(call.data.userGoal, Goal.Lose1)

\* C5 as stated: for female, 150, 25, 1.2, lose-1 the estimator yields
\* bmr = 370.25, tdee = 444.3 and calories = 355.44.
C5_Original ==
  C5_Input =>
    /\ call.bmr = Decimal(37025, 100)
    /\ call.tdee = Decimal(4443, 10)
    /\ results.calories = Decimal(35544, 100)

\* C5 as amended: for female, 150, 25, 1.2, lose-1 the estimator yields
\* bmr = 1220.25 (10*150 + 6.25 - 5*25 - 161), tdee = 1464.3 and
\* calories = 1171.44.
C5_FemaleExample ==
  C5_Input =>
    /\ call.bmr = Decimal(122025, 100)
    /\ call.tdee = Decimal(14643, 10)
    /\ results.calories = Decimal(117144, 100)

\* C5 witness: the example input has been estimated
C5_Witness == C5_Input /\ call.tdee = Decimal(14643, 10)

\* male, weight 180, age 30, activity 1.55, goal maintain, in page.tsx or part_001
C6_Input ==
  /\ call.invoked /\ variant \in {"page", "part_001"}
  /\ IsMale(call.data) /\ HasWeightAge(call.data, 180, 30)
  /\ SubmittedActivity(call.data, "ModeratelyActive")
  /\ StrictEqualsString(call.data.userGoal, Goal.Maintain)

\* C6: for male, 180, 30, 1.55, maintain the estimator yields bmr = 1661.25,
\* tdee = calories = 2574.9375, protein = 2574.9375*0.25/4,
\* carbs = 2574.9375*0.45/4 and fat = 2574.9375*0.30/9.
C6_MaleExample ==
  C6_Input =>
    /\ call.bmr = Decimal(166125, 100)
    /\ call.tdee = Decimal(25749375, 10000)
    /\ results.calories = Decimal(25749375, 10000)
    /\ results.protein =
         NumDiv(NumMul(Decimal(25749375, 10000), Decimal(25, 100)), NumOfInt(4))
    /\ results.carbs =
         NumDiv(NumMul(Decimal(25749375, 10000), Decimal(45, 100)), NumOfInt(4))
    /\ results.fat =
         NumDiv(NumMul(Decimal(25749375, 10000), Decimal(30, 100)), NumOfInt(9))

\* C6 witness: the example input has been estimated
C6_Witness == C6_Input /\ results.calories = Decimal(25749375, 10000)

\* C7: when the goal tag is none of the seven (the empty string), onSubmit
\* still stores a result, with multiplier 1: calories = tdee
\* = bmr * activity factor, and the result is the one for "maintain".
C7_UnknownGoalIsMaintain ==
  (call.invoked /\ call.data.userGoal.str \notin UserGoal) =>
    /\ call.goalMultiplier = NumOfInt(1)
    /\ results.calories = call.tdee
    /\ call.tdee = NumMul(call.bmr, ActivityFactor(variant, call.data, selectedActivityLevel))
    /\ results = onSubmit(variant, [call.data EXCEPT !.userGoal = JSString(Goal.Maintain)],
                          selectedActivityLevel).results

\* C7 witness: a result stored for the empty goal tag
C7_Witness ==
  /\ call.invoked /\ call.data.userGoal = JSString(UnknownGoal)
  /\ IsMale(call.data)
  /\ ~results.calories.nan /\ ~IsZero(results.calories)

\* C8 as stated: when gender is neither "male" nor "female", bmr stays 0 and
\* the stored calories, protein, carbs and fat are 0, for every weight, age,
\* activity level and goal.
C8_Original ==
  (call.invoked /\ call.data.gender.str \notin Genders) =>
    /\ IsZero(call.bmr)
    /\ IsZero(results.calories) /\ IsZero(results.protein)
    /\ IsZero(results.carbs) /\ IsZero(results.fat)

\* A field of the submitted data is missing: undefined or an empty string
Missing(v) == v.t = "undefined" \/ (v.t = "string" /\ v.str = <<>>)

CompleteData(data) ==
  /\ ~Missing(data.weight) /\ ~Missing(data.age)
  /\ ~Missing(data.heightFeet) /\ ~Missing(data.heightInches)
  /\ StringOneOf(data.gender, Genders)
  /\ StringOneOf(data.userGoal, UserGoal)
  /\ \E a \in ActivityLevelNames : SubmittedActivity(data, a)

\* C9 as stated: onSubmit is never invoked with a missing field, a gender
\* outside {male, female}, an activity level outside the five multipliers or
\* a goal outside the seven tags, and a handleSubmit that validation rejects
\* leaves the stored results unchanged.
C9_Original ==
  /\ [](call.invoked => CompleteData(call.data))
  /\ [][outcome' = "rejected" => results' = results]_vars

\* C10 as stated: for the same submitted weight, age, gender, activity level
\* and goal every variant's onSubmit stores what page.tsx's onSubmit stores,
\* whatever the selection state.
C10_Original ==
  call.invoked => results = onSubmit("page", call.data, Undefined).results

\* C11 as stated: submitting identical input twice stores identical results
\* both times, the result being a function of the submitted input alone and
\* never of earlier results or other hidden state.
C11_Original ==
  [][(call.invoked /\ call'.invoked /\ call'.data = call.data)
       => results' = results]_vars

\* The submitted record with another height: 4 feet, and 3 inches
OtherFeet(data) == [data EXCEPT !.heightFeet = JSNumber(NumOfInt(4))]
OtherInches(data) == [data EXCEPT !.heightInches = JSNumber(NumOfInt(3))]

\* C12: the stored result does not depend on heightFeet or heightInches: a
\* submission that differs from the one made only in a height field stores
\* the same calories, protein, carbs and fat.
C12_HeightIndependent ==
  call.invoked =>
    /\ onSubmit(variant, OtherFeet(call.data), selectedActivityLevel).results = results
    /\ onSubmit(variant, OtherInches(call.data), selectedActivityLevel).results = results

\* C12 witness: a nonzero result stored for a submission whose heights are
\* 6 feet 10 inches, which the two records compared with it do not have
C12_Witness ==
  /\ call.invoked
  /\ ToNumber(call.data.heightFeet) = NumOfInt(6)
  /\ ToNumber(call.data.heightInches) = NumOfInt(10)
  /\ ~results.calories.nan /\ ~IsZero(results.calories)

\* The fields of MacronutrientResults
ResultFields == {"calories", "protein", "carbs", "fat"}

\* C13 as stated: in every reachable state the stored result is a complete
\* record, all four of calories, protein, carbs and fat being defined
\* numbers, never missing, null or not-a-number, before the first submission
\* and after any submission.
C13_Original ==
  /\ DOMAIN results = ResultFields
  /\ \A f \in ResultFields : ~results[f].nan

\* C14: invocations are independent.  After any sequence of submissions the
\* stored result is the estimate of the most recent accepted submission,
\* computed from its data alone, and a step that invokes onSubmit leaves the
\* field values it was given as they were.
C14_IndependentInvocations ==
  /\ [](call.invoked =>
         results = onSubmit(variant, call.data, selectedActivityLevel).results)
  /\ [][call' # call => form' = form]_vars

\* C14 witness: a submission was accepted and a later one rejected, the
\* stored result being the nonzero estimate of the accepted one
C14_Witness ==
  /\ call.invoked /\ outcome = "rejected"
  /\ ~IsZero(results.calories)
  /\ results = call.results

\* {results && (... Math.round(results.calories) ...)}: what the page shows
Displayed ==
  [calories |-> MathRound(results.calories),
   protein  |-> MathRound(results.protein),
   carbs    |-> MathRound(results.carbs),
   fat      |-> MathRound(results.fat)]

IsInteger(x) == ~x.nan /\ (IsZero(x) \/ x.e >= 0)

\* C15: rounding happens only at display.  The stored result is the record
\* onSubmit computed, unrounded; every displayed field is an integer, the
\* Math.round of the stored field, and lies within 0.5 of it.
C15_RoundedAtDisplay ==
  /\ call.invoked => results = call.results
  /\ \A f \in ResultFields :
        /\ IsInteger(Displayed[f])
        /\ NumLeq(NumAbs(NumSub(Displayed[f], results[f])), Double(<<1>>, -1))

\* C15 witness: a stored result with fractions in every field, displayed as
\* other numbers than the stored ones
C15_Witness ==
  /\ call.invoked
  /\ \A f \in ResultFields :
        /\ ~results[f].nan /\ results[f].e < 0
        /\ Displayed[f] # results[f]

\* The selection a field's buttons show: part_000 highlights its selected*
\* state, page.tsx the watched form value
SelectedGenderShown == IF variant = "part_000" THEN selectedGender ELSE form.gender
SelectedGoalShown == IF variant = "part_000" THEN selectedGoal ELSE form.userGoal
SelectedActivityShown ==
  IF variant = "part_000" THEN selectedActivityLevel ELSE form.activityLevel

\* A click on a button of one field leaves the other fields' selections and
\* the stored result as they were
ClickFrame ==
  /\ (SetValueGender \/ handleGenderSelection) =>
       UNCHANGED <<SelectedGoalShown, SelectedActivityShown, results>>
  /\ (SetValueUserGoal \/ handleGoalSelection) =>
       UNCHANGED <<SelectedGenderShown, SelectedActivityShown, results>>
  /\ (SetValueActivityLevel \/ handleActivityLevelSelection) =>
       UNCHANGED <<SelectedGenderShown, SelectedGoalShown, results>>

\* The gender and the goal a submission hands to validation and to onSubmit
\* are the form values; they are the ones last clicked
UsesLastClicked ==
  /\ SelectedGenderShown # Undefined => form.gender = SelectedGenderShown
  /\ SelectedGoalShown # Undefined => form.userGoal = SelectedGoalShown

\* C16: each of gender, goal and activity level holds one selected value; a
\* click replaces that field's selection and leaves the other selections and
\* the stored result unchanged, and a later submission uses for the field
\* the value last clicked.
C16_Original == [][ClickFrame]_vars /\ []UsesLastClicked

\* {results && (...)}: the panel is rendered for any object
PanelShown == DOMAIN results = ResultFields

\* C17: until a submission has been accepted the stored result is
\* {calories: 0, protein: 0, carbs: 0, fat: 0}; in every reachable state the
\* stored result is a record, never null, so the results panel is shown.
C17_ZerosUntilAccepted ==
  /\ ~call.invoked => \A f \in ResultFields : results[f] = NumZero(FALSE)
  /\ PanelShown

\* C17 witness: a submission was made and rejected, none accepted so far, and
\* the panel shows the zeros
C17_Witness ==
  /\ ~call.invoked /\ outcome = "rejected"
  /\ form.weight # Undefined
  /\ PanelShown
  /\ \A f \in ResultFields : Displayed[f] = NumZero(FALSE)

\* C18: in page.tsx pressing Reset puts the form back to its default values
\* and leaves the stored result as it was; Reset never invokes onSubmit, so
\* the result of the last accepted submission stays until the next accepted
\* one.
C18_ResetKeepsResults ==
  [][onReset => /\ form' = MountedForm("page")
                /\ results' = results
                /\ call' = call]_vars

\* C18 witness: Reset pressed after an accepted submission; the form is
\* cleared (its gender is undefined again, which only Reset does), the
\* submission the button also triggers was rejected, and the nonzero result
\* of the accepted submission is still stored
C18_Witness ==
  /\ variant = "page"
  /\ call.invoked /\ outcome = "rejected"
  /\ form = MountedForm("page")
  /\ results = call.results
  /\ ~IsZero(results.calories)

Positive(x) == ~x.nan /\ ~IsZero(x) /\ ~x.neg

\* The goals from the greatest loss to the greatest gain
GoalOrder == <<"Lose2", "Lose1", "Lose0_5", "Maintain", "Gain0_5", "Gain1", "Gain2">>

\* The calories onSubmit stores for the submitted data with the goal g
CaloriesForGoal(g) ==
  onSubmit(variant, [call.data EXCEPT !.userGoal = JSString(Goal[g])],
           selectedActivityLevel).results.calories

\* C19: for every input of page.tsx that passes validation with weight > 0
\* and age > 0, the stored calories, protein, carbs and fat are not negative
\* and the calories grow with the goal: lose-2 <= lose-1 <= lose-0.5 <=
\* maintain <= gain-0.5 <= gain-1 <= gain-2.
C19_Original ==
  (/\ call.invoked /\ variant = "page"
   /\ SchemaValid("page", call.data)
   /\ Positive(ToNumber(call.data.weight))
   /\ Positive(ToNumber(call.data.age))) =>
    /\ \A f \in ResultFields : NotNegative(results[f])
    /\ \A i \in 1..6 :
         NumLeq(CaloriesForGoal(GoalOrder[i]), CaloriesForGoal(GoalOrder[i + 1]))

====
